---- MODULE Spec2Model ----
(***************************************************************************)
(* Digital twin of a light sensor (src/twin/twin_sim.py, twin_eval.py),    *)
(* its timeline page (src/twin/app.py) and the dashboard service           *)
(* (src/dashboard/app.py).                                                 *)
(*                                                                         *)
(* Representation of the Python values:                                    *)
(*   - a datetime is [t |-> seconds since midnight of day 0, tz |-> ...];  *)
(*     tz is "utc" for an aware datetime and "naive" for tzinfo None;      *)
(*   - an hour of the day (sunrise_hour, _fractional_hour) is a rational   *)
(*     with denominator 3600, held as its numerator;                       *)
(*   - a cloud cover is a rational with denominator CloudDen;              *)
(*   - a lux value computed by the twin is a rational with denominator     *)
(*     LuxDen, held as its numerator; the lux fields of a TwinConfig are   *)
(*     whole lux;                                                          *)
(*   - math.sin(math.pi * x) is Bhaskara's rational approximation          *)
(*     16x(1-x) / (5 - 4x(1-x)), cut to ShapeScale digits: like the sine   *)
(*     it is 0 at x = 0, positive up to x = 1 and 1 at x = 1/2;            *)
(*   - the outcomes of the random module are the inputs of the actions.    *)
(***************************************************************************)
EXTENDS Integers, Sequences, FiniteSets, TLC

\* ---------------------------------------------------------------- bounds
MaxCalls == 2
ShapeScale == 1000
CloudDen == 4

LuxDen == ShapeScale * 4 * CloudDen

ToLux(n) == n * LuxDen

SecondsPerMinute == 60
SecondsPerHour == 3600
HoursPerDay == 24
SecondsPerDay == HoursPerDay * SecondsPerHour

HourOf(n) == n * SecondsPerHour

\* ------------------------------------------------------------ TwinConfig
TwinConfig ==
    [ room_id             |-> "room-101",
      device_id           |-> "ls-100-0001",
      model_version       |-> "twin-v1",
      sampling_seconds    |-> 60,
      night_lux           |-> 2,
      peak_lux            |-> 450,
      sunrise_hour        |-> HourOf(7),
      sunset_hour         |-> HourOf(18),
      noise_sigma         |-> 8,
      drift_per_day       |-> 2,
      anomaly_rate        |-> 1,
      alert_lux_threshold |-> 10,
      impossible_high_lux |-> 20000 ]

\* The configurations under check: the default one, the ones of
\* test_twin_sim.py at a coarser sampling interval, and configurations the
\* dataclass accepts without validation.
CfgDefault == TwinConfig

CfgDrift ==
    [TwinConfig EXCEPT !.sampling_seconds = HourOf(6), !.drift_per_day = 5,
                       !.noise_sigma = 0, !.anomaly_rate = 0]

CfgDawn ==
    [TwinConfig EXCEPT !.sampling_seconds = HourOf(6), !.peak_lux = 500,
                       !.sunrise_hour = HourOf(6), !.noise_sigma = 0,
                       !.anomaly_rate = 0, !.drift_per_day = 0]

CfgNoise ==
    [TwinConfig EXCEPT !.sampling_seconds = HourOf(12), !.anomaly_rate = 0]

CfgAnomaly ==
    [TwinConfig EXCEPT !.sampling_seconds = HourOf(12), !.noise_sigma = 0,
                       !.impossible_high_lux = 900, !.alert_lux_threshold = 0]

CfgNegNight ==
    [TwinConfig EXCEPT !.sampling_seconds = HourOf(3), !.night_lux = -5,
                       !.peak_lux = 45, !.noise_sigma = 0, !.anomaly_rate = 0,
                       !.alert_lux_threshold = -3]

CfgFlat ==
    [TwinConfig EXCEPT !.sampling_seconds = HourOf(6), !.peak_lux = 2,
                       !.noise_sigma = 0, !.anomaly_rate = 0]

Configs ==
    {CfgDefault, CfgDrift, CfgDawn, CfgNoise, CfgAnomaly, CfgNegNight, CfgFlat}

\* ------------------------------------------------------------- datetimes
DateTime(day, hour, minute, tz) ==
    [t |-> day * SecondsPerDay + hour * SecondsPerHour + minute * SecondsPerMinute,
     tz |-> tz]

DateOf(ts) == ts.t \div SecondsPerDay
HourField(ts) == (ts.t % SecondsPerDay) \div SecondsPerHour
MinuteField(ts) == (ts.t % SecondsPerHour) \div SecondsPerMinute
SecondField(ts) == ts.t % SecondsPerMinute

PlusSeconds(ts, s) == [ts EXCEPT !.t = ts.t + s]

\* ------------------------------------------------------------ arithmetic
RECURSIVE GCD(_, _)
GCD(a, b) == IF b = 0 THEN a ELSE GCD(b, a % b)

Max(a, b) == IF a >= b THEN a ELSE b
Min(a, b) == IF a <= b THEN a ELSE b

\* int(): truncation towards zero.
TruncDiv(a, b) == IF a >= 0 THEN a \div b ELSE -((-a) \div b)

\* math.sin(math.pi * n / d) for 0 <= n <= d, in units of 1/ShapeScale.
\* math.sin(0.0) is 0.0, but math.sin(math.pi * 1.0) is 1.2e-16, not 0: at
\* n = d the value is the least positive one of the model.
SinPi(n, d) ==
    LET g == GCD(n, d)
        a == n \div g
        b == d \div g
        p == a * (b - a)
    IN IF n = d THEN 1 ELSE (ShapeScale * 16 * p) \div (5 * b * b - 4 * p)

\* ----------------------------------------------------------- twin_sim.py
\* Mutant: the upper limit is not applied.
_clampNoUpper(x, lo, hi) == Max(lo, x)

_clamp(x, lo, hi) == Max(lo, Min(hi, x))

_fractional_hour(ts) ==
    HourField(ts) * SecondsPerHour + MinuteField(ts) * SecondsPerMinute + SecondField(ts)

\* Mutant: the hours after sunset are not taken as night.
NightBranchNoSunset(h, cfg) == h < cfg.sunrise_hour

NightBranch(h, cfg) == h < cfg.sunrise_hour \/ h > cfg.sunset_hour

\* Mutant: total overcast leaves no daylight at all.
AttenuationFull(cloud_cover) == 4 * CloudDen - 4 * _clamp(cloud_cover, 0, CloudDen)

Attenuation(cloud_cover) == 4 * CloudDen - 3 * _clamp(cloud_cover, 0, CloudDen)

\* Mutant: the attenuation does not depend on the cloud cover.
DaylightLuxClearSky(h, cloud_cover, cfg) ==
    LET span == cfg.sunset_hour - cfg.sunrise_hour
        daylight_shape == SinPi(h - cfg.sunrise_hour, span)
        lux == ToLux(cfg.night_lux)
               + (cfg.peak_lux - cfg.night_lux) * daylight_shape * 4 * CloudDen
    IN Max(0, lux)

DaylightLux(h, cloud_cover, cfg) ==
    LET span == cfg.sunset_hour - cfg.sunrise_hour
        daylight_shape == SinPi(h - cfg.sunrise_hour, span)
        attenuation == Attenuation(cloud_cover)
        lux == ToLux(cfg.night_lux)
               + (cfg.peak_lux - cfg.night_lux) * daylight_shape * attenuation
    IN Max(0, lux)

predicted_lux(ts, cloud_cover, cfg) ==
    LET h == _fractional_hour(ts)
    IN IF NightBranch(h, cfg) THEN ToLux(cfg.night_lux)
       ELSE DaylightLux(h, cloud_cover, cfg)

\* random.gauss(0.0, sigma) is sigma * z for a standard normal z; the draws
\* of z under check are whole numbers.
GaussDraws == {-1, 0, 1}

\* random.random() compared with cfg.anomaly_rate, both in hundredths.
AnomalyDraws == {0, 50, 99}

AnomalyKinds == {"stuck_low", "stuck_high", "spike", "negative"}

\* random.random() as a cloud cover, in units of 1/CloudDen (never 1.0).
CloudDraws == {0, CloudDen - 1}

AnomalyValue(kind, pred_lux, cfg) ==
    CASE kind = "stuck_low"  -> 0
      [] kind = "stuck_high" -> ToLux(cfg.peak_lux) * 2
      [] kind = "spike"      -> pred_lux + ToLux(cfg.peak_lux) * 3
      [] kind = "negative"   -> ToLux(-50)

\* Mutant: the anomaly is added to the drifted, noisy value.
observed_luxPerturbed(pred_lux, day_index, cfg, gauss, u, kind) ==
    LET drift == ToLux(cfg.drift_per_day) * day_index
        noise == ToLux(cfg.noise_sigma) * gauss
        obs == pred_lux + drift + noise
    IN IF u < cfg.anomaly_rate THEN obs + AnomalyValue(kind, pred_lux, cfg) ELSE obs

\* gauss, u and kind are what random.gauss, random.random and random.choice
\* return in this call (kind is drawn only when u < anomaly_rate).
observed_lux(pred_lux, day_index, cfg, gauss, u, kind) ==
    LET drift == ToLux(cfg.drift_per_day) * day_index
        noise == ToLux(cfg.noise_sigma) * gauss
        obs == pred_lux + drift + noise
    IN IF u < cfg.anomaly_rate THEN AnomalyValue(kind, pred_lux, cfg) ELSE obs

\* Mutant: zero counts as negative.
IsNegativeOrZero(lux) == lux <= 0

IsNegative(lux) == lux < 0

IsImpossibleHigh(lux, cfg) == lux > ToLux(cfg.impossible_high_lux)

\* Mutant: the lower bound of the dark alert is dropped.
IsDarkAlertNoFloor(lux, cfg) == lux < ToLux(cfg.alert_lux_threshold)

IsDarkAlert(lux, cfg) == (lux >= 0) /\ (lux < ToLux(cfg.alert_lux_threshold))

classify_reading(lux, cfg) ==
    [ is_negative        |-> IsNegative(lux),
      is_impossible_high |-> IsImpossibleHigh(lux, cfg),
      is_dark_alert      |-> IsDarkAlert(lux, cfg) ]

\* Optional[float]: <<>> is None, <<x>> is x.
None == <<>>
Some(x) == <<x>>

\* cloud_cover_fn: None, or a callable from a timestamp to a number (in
\* units of 1/CloudDen; nothing keeps a callable inside [0, 1]).
CloudFns ==
    {[kind |-> "none"], [kind |-> "by_hour"]}
    \cup {[kind |-> "const", v |-> v] : v \in {-1, 1, CloudDen + 1}}

CallCloudFn(fn, ts) ==
    IF fn.kind = "const" THEN fn.v ELSE (HourField(ts) % (CloudDen + 3)) - 1

NormalizeStart(start_ts) ==
    IF start_ts.tz = "naive" THEN [start_ts EXCEPT !.tz = "utc"] ELSE start_ts

\* Mutant: the end point start + minutes is counted as a reading.
TotalPointsInclusive(minutes, cfg) ==
    TruncDiv(minutes * SecondsPerMinute, cfg.sampling_seconds) + 1

TotalPoints(minutes, cfg) ==
    TruncDiv(minutes * SecondsPerMinute, cfg.sampling_seconds)

\* Mutant: the first reading is one interval after the start.
TimestampOneBased(start, idx, cfg) ==
    PlusSeconds(start, (idx + 1) * cfg.sampling_seconds)

Timestamp(start, idx, cfg) == PlusSeconds(start, idx * cfg.sampling_seconds)

\* Mutant: whole days elapsed since the start, not calendar dates.
DayIndexElapsed(ts, start) == (ts.t - start.t) \div SecondsPerDay

DayIndex(ts, start) == DateOf(ts) - DateOf(start)

\* Mutant: the carry of the previous call is kept.
InitialPrevObsCarried(stale) == stale

\* prev_obs: Optional[float] = None, whatever an earlier call left (stale).
InitialPrevObs(stale) == None

Abs(x) == IF x < 0 THEN -x ELSE x

\* Mutant: a previous value of 0.0 is taken for no previous value.
IsStuckTruthy(prev, obs) == prev # None /\ prev[1] # 0 /\ Abs(obs - prev[1]) = 0

\* abs(obs - prev_obs) < 1e-12: the tolerance is below 1/LuxDen, so two values
\* of the model are within it exactly when their difference is 0.
IsStuck(prev, obs) == prev # None /\ Abs(obs - prev[1]) = 0

MakeDoc(ts, cloud_cover, pred, obs, prev, cfg) ==
    [ room_id       |-> cfg.room_id,
      device_id     |-> cfg.device_id,
      model_version |-> cfg.model_version,
      ts            |-> ts,
      cloud_cover   |-> cloud_cover,
      lux_pred      |-> pred,
      lux_obs       |-> obs,
      flags         |-> [ is_negative        |-> classify_reading(obs, cfg).is_negative,
                          is_impossible_high |-> classify_reading(obs, cfg).is_impossible_high,
                          is_dark_alert      |-> classify_reading(obs, cfg).is_dark_alert,
                          is_stuck           |-> IsStuck(prev, obs) ] ]

\* ---------------------------------------------------------- twin_eval.py
RECURSIVE SumAbs(_)
SumAbs(errors) == IF errors = <<>> THEN 0 ELSE Abs(Head(errors)) + SumAbs(Tail(errors))

RECURSIVE SumSquares(_)
SumSquares(errors) ==
    IF errors = <<>> THEN 0 ELSE Head(errors) * Head(errors) + SumSquares(Tail(errors))

\* x ** 0.5, cut to the unit of the model.
RECURSIVE SqrtFrom(_, _)
SqrtFrom(x, r) == IF (r + 1) * (r + 1) > x THEN r ELSE SqrtFrom(x, r + 1)

Sqrt(x) == SqrtFrom(x, 0)

\* The quotients of mae, rmse and percent_within_band, and round(), are cut
\* to the unit of the model.
mae(errors) == SumAbs(errors) \div Max(1, Len(errors))

rmse(errors) == Sqrt(SumSquares(errors) \div Max(1, Len(errors)))

percent_within_band(obs, pred, tol) ==
    LET within == Cardinality({k \in 1..Min(Len(obs), Len(pred)) : Abs(obs[k] - pred[k]) <= tol})
    IN (100 * within) \div Max(1, Len(obs))

\* best is None (<<>>) or <<hour, lux_pred>>.
RECURSIVE PeakLoopLastTie(_, _)
PeakLoopLastTie(pred_series, best) ==
    IF pred_series = <<>> THEN best
    ELSE LET d == Head(pred_series)
         IN PeakLoopLastTie(Tail(pred_series),
                            IF best = None \/ d.lux_pred >= best[2]
                            THEN <<HourField(d.ts), d.lux_pred>> ELSE best)

\* Mutant: an equal later lux_pred replaces the best.
peak_hourLastTie(pred_series) ==
    LET best == PeakLoopLastTie(pred_series, None)
    IN IF best # None THEN best ELSE <<-1, 0>>

RECURSIVE PeakLoop(_, _)
PeakLoop(pred_series, best) ==
    IF pred_series = <<>> THEN best
    ELSE LET d == Head(pred_series)
         IN PeakLoop(Tail(pred_series),
                     IF best = None \/ d.lux_pred > best[2]
                     THEN <<HourField(d.ts), d.lux_pred>> ELSE best)

peak_hour(pred_series) ==
    LET best == PeakLoop(pred_series, None)
    IN IF best # None THEN best ELSE <<-1, 0>>

CountFlag(readings, flag) ==
    Cardinality({k \in 1..Len(readings) : readings[k].flags[flag]})

Report(readings, tol_lux) ==
    LET pred == [k \in 1..Len(readings) |-> readings[k].lux_pred]
        obs == [k \in 1..Len(readings) |-> readings[k].lux_obs]
        errors == [k \in 1..Len(readings) |-> obs[k] - pred[k]]
        pk == peak_hour(readings)
    IN [ ok                 |-> TRUE,
         count              |-> Len(readings),
         mae                |-> mae(errors),
         rmse               |-> rmse(errors),
         within_tol_percent |-> percent_within_band(obs, pred, tol_lux),
         tol_lux            |-> tol_lux,
         peak_hour_pred     |-> pk[1],
         peak_pred_lux      |-> pk[2],
         peak_hour_ok       |-> (10 <= pk[1] /\ pk[1] <= 14),
         anomalies          |-> [ negative        |-> CountFlag(readings, "is_negative"),
                                  impossible_high |-> CountFlag(readings, "is_impossible_high"),
                                  stuck           |-> CountFlag(readings, "is_stuck") ] ]

\* Mutant: the empty sequence is not told apart.
evaluateNoGuard(readings, tol_lux) == Report(readings, tol_lux)

evaluate(readings, tol_lux) ==
    IF readings = <<>> THEN [ok |-> FALSE, reason |-> "no data"]
    ELSE Report(readings, tol_lux)

\* ------------------------------------------------------------ the callers
MaxPoints == 4

Starts ==
    {DateTime(0, 0, 0, "utc"), DateTime(0, 12, 0, "utc"), DateTime(0, 21, 0, "naive")}

MinutesChoices == {-1440, 0, 1, 800, 1440}

DayShifts == {0, 2}

ProbeTimes == {DateTime(0, h, m, "utc") : h \in 0..(HoursPerDay - 1), m \in {0, 30}}

ProbeClouds == (-1)..(CloudDen + 1)

ProbeLux(c) ==
    LET marks == {0, ToLux(-50), ToLux(-1), ToLux(c.alert_lux_threshold),
                  ToLux(c.impossible_high_lux), ToLux(50000)}
    IN UNION {{m - 1, m, m + 1} : m \in marks}

ProbePred(c) == {0, ToLux(c.night_lux), ToLux(c.peak_lux)}

ProbeDays == 0..2

MaxEvalLen == 3

\* Stored readings handed to evaluate: hours around the midday window, two
\* levels of lux_pred, an error of 0 or of 4 units below.
EvalReadings ==
    { [ ts       |-> DateTime(0, h, 0, "utc"),
        lux_pred |-> p,
        lux_obs  |-> p + e,
        flags    |-> [ is_negative |-> p + e < 0, is_impossible_high |-> FALSE,
                       is_dark_alert |-> p + e >= 0, is_stuck |-> e # 0 ] ] :
      h \in {9, 10, 14, 15}, p \in {1, 2}, e \in {-4, 0} }

RECURSIVE SeqsUpTo(_, _)
SeqsUpTo(S, n) ==
    IF n = 0 THEN {<<>>}
    ELSE LET shorter == SeqsUpTo(S, n - 1)
         IN shorter \cup {Append(q, x) : q \in shorter, x \in S}

EvalTol == 3

VARIABLES
    caller,        \* "unit": calls the pure functions; "series": calls generate_series
    cfg,           \* the TwinConfig of the run
    pc,            \* "idle", or "loop" inside generate_series
    start_ts,      \* generate_series: argument, after normalisation
    minutes,       \* generate_series: argument
    cloud_cover_fn,\* generate_series: argument
    total_points,  \* generate_series: local
    i,             \* generate_series: loop index
    out,           \* generate_series: local list of documents
    prev_obs,      \* generate_series: local Optional[float]
    calls,         \* number of generate_series calls made
    prev_ret,      \* the previous call of generate_series: arguments and result
    probe          \* the last direct call of a pure function and its result

VARIABLES
    program,       \* the program that runs: "twin_sim", "twin_app", "dashboard"
    MONGO_URI,     \* os.getenv('MONGO_URI'): None, or Some(string)
    reachable,     \* whether the MongoDB server answers
    phase,         \* "startup", "main", "serving", "done" or "failed"
    error,         \* the exception that ended the program or the last request
    db,            \* dashboard: the global db, None or Some(DB_NAME)
    store,         \* the collections held by the MongoDB server
    threads,       \* dashboard: the create_alert requests in flight
    response,      \* the last response sent
    served         \* number of requests received

VARIABLES
    sensor_history,        \* dashboard: the global list of readings
    sensor_history_by_id,  \* dashboard: the list of readings of each sensor
    accepted,              \* every reading accepted so far, in arrival order
    initial_history        \* sensor_history when the dashboard began to serve

VARIABLES
    rng,           \* the generator of the random module, shared by the process
    inv            \* the generate_series invocations running side by side

twinVars ==
    <<caller, cfg, pc, start_ts, minutes, cloud_cover_fn, total_points, i, out,
      prev_obs, calls, prev_ret, probe>>

svcVars ==
    <<program, MONGO_URI, reachable, phase, error, db, store, threads, response,
      served>>

parVars == <<rng, inv>>

histVars == <<sensor_history, sensor_history_by_id, accepted, initial_history>>

vars == <<twinVars, svcVars, parVars, histVars>>

NoArgs == [t |-> 0, tz |-> "utc"]

\* VALID_ROOMS of the dashboard.
VALID_ROOMS == {"living", "bedroom", "kitchen", "bathroom", "office", "garage"}

EmptyStore ==
    [ daily_usage  |-> {},
      rooms        |-> [r \in VALID_ROOMS |-> {}],
      admin_access |-> <<>>,
      alerts       |-> <<>>,
      readings     |-> <<>> ]

MaxThreads == 2

\* No service runs.
ServiceIdle ==
    /\ program = "none"
    /\ MONGO_URI = None
    /\ reachable = FALSE
    /\ phase = "startup"
    /\ error = None
    /\ db = None
    /\ store = EmptyStore
    /\ threads = [t \in 1..MaxThreads |-> None]
    /\ response = <<>>
    /\ served = 0

\* No invocations run side by side.
ParIdle ==
    /\ rng = [seed |-> 0, state |-> 0, first |-> 0]
    /\ inv = <<>>

\* The n of keep_last_n, which is 50 in the source.
HistoryLimit == 2

\* The number of simulated readings of a run as a script, 20 in the source.
SimulatedCount == 1

\* The readings appended before app.run (lines 493-500): lux in tenths
\* and its status, without a sensor_id.
SimulatedHistory ==
    [k \in 1..SimulatedCount |->
        [lux |-> 250, timestamp |-> "startup", status |-> "Normal"]]

\* Mutant: the oldest n readings are kept.
keep_last_nOldest(history_list, n) ==
    IF Len(history_list) > n THEN SubSeq(history_list, 1, n) ELSE history_list

\* keep_last_n(history_list, n): del history_list[:-n]
keep_last_n(history_list, n) ==
    IF Len(history_list) > n
    THEN SubSeq(history_list, Len(history_list) - n + 1, Len(history_list))
    ELSE history_list

\* dict.setdefault(key, [])
setdefault(dict, key) ==
    [k \in DOMAIN dict \cup {key} |-> IF k \in DOMAIN dict THEN dict[k] ELSE <<>>]

\* No reading was posted to a dashboard.
HistIdle ==
    /\ sensor_history = <<>>
    /\ sensor_history_by_id = <<>>
    /\ accepted = <<>>
    /\ initial_history = <<>>

\* No call of generate_series was made.
TwinIdle ==
    /\ pc = "idle"
    /\ start_ts = NoArgs
    /\ minutes = 0
    /\ cloud_cover_fn = [kind |-> "none"]
    /\ total_points = 0
    /\ i = 0
    /\ out = <<>>
    /\ prev_obs = None
    /\ calls = 0
    /\ prev_ret = <<>>
    /\ probe = <<>>

Init ==
    /\ ServiceIdle
    /\ HistIdle
    /\ ParIdle
    /\ caller \in {"unit", "series"}
    /\ cfg \in Configs
    /\ pc = "idle"
    /\ start_ts = NoArgs
    /\ minutes = 0
    /\ cloud_cover_fn = [kind |-> "none"]
    /\ total_points = 0
    /\ i = 0
    /\ out = <<>>
    /\ prev_obs = None
    /\ calls = 0
    /\ prev_ret = <<>>
    /\ probe = <<>>

\* generate_series, up to the loop (lines 131-136).
Enter(start, mins, fn) ==
    /\ TotalPoints(mins, cfg) <= MaxPoints
    /\ pc' = "loop"
    /\ start_ts' = NormalizeStart(start)
    /\ minutes' = mins
    /\ cloud_cover_fn' = fn
    /\ total_points' = TotalPoints(mins, cfg)
    /\ i' = 0
    /\ out' = <<>>
    /\ prev_obs' = InitialPrevObs(prev_obs)
    /\ calls' = calls + 1
    /\ UNCHANGED <<caller, cfg, probe>>

\* A first call of generate_series.
Call ==
    /\ caller = "series"
    /\ pc = "idle"
    /\ calls = 0
    /\ \E start \in Starts, mins \in MinutesChoices, fn \in CloudFns :
          /\ Enter(start, mins, fn)
          /\ prev_ret' = prev_ret
    /\ UNCHANGED <<svcVars, parVars, histVars>>

\* A further call over the same clock window some days later, as in
\* test_drift_increases_observed_over_days.
CallAgain ==
    /\ caller = "series"
    /\ pc = "idle"
    /\ calls >= 1
    /\ calls < MaxCalls
    /\ \E days \in DayShifts :
          /\ Enter(PlusSeconds(prev_ret[1].start, days * SecondsPerDay),
                   prev_ret[1].minutes, prev_ret[1].cloud_cover_fn)
          /\ prev_ret' = prev_ret
    /\ UNCHANGED <<svcVars, parVars, histVars>>

\* One iteration of the loop of generate_series (lines 138-166).
Step ==
    /\ pc = "loop"
    /\ i < total_points
    /\ LET ts == Timestamp(start_ts, i, cfg)
           day_index == DayIndex(ts, start_ts)
       IN \E raw \in (IF cloud_cover_fn.kind = "none" THEN CloudDraws
                      ELSE {CallCloudFn(cloud_cover_fn, ts)}),
             gauss \in GaussDraws, u \in AnomalyDraws :
          \E kind \in (IF u < cfg.anomaly_rate THEN AnomalyKinds ELSE {"none"}) :
             LET cloud_cover == _clamp(raw, 0, CloudDen)
                 pred == predicted_lux(ts, cloud_cover, cfg)
                 obs == observed_lux(pred, day_index, cfg, gauss, u, kind)
             IN /\ out' = Append(out, MakeDoc(ts, cloud_cover, pred, obs, prev_obs, cfg))
                /\ prev_obs' = Some(obs)
    /\ i' = i + 1
    /\ UNCHANGED <<caller, cfg, pc, start_ts, minutes, cloud_cover_fn, total_points,
                   calls, prev_ret, probe>>
    /\ UNCHANGED <<svcVars, parVars, histVars>>

\* return out (line 168).
Return ==
    /\ pc = "loop"
    /\ i >= total_points
    /\ pc' = "idle"
    /\ prev_ret' = << [start |-> start_ts, minutes |-> minutes,
                      cloud_cover_fn |-> cloud_cover_fn, docs |-> out] >>
    /\ UNCHANGED <<caller, cfg, start_ts, minutes, cloud_cover_fn, total_points, i,
                   out, prev_obs, calls, probe>>
    /\ UNCHANGED <<svcVars, parVars, histVars>>

\* The unit caller makes one direct call: predicted_lux(ts, cloud_cover, cfg).
Predict ==
    /\ caller = "unit"
    /\ probe = <<>>
    /\ \E ts \in ProbeTimes, c \in ProbeClouds :
          probe' = << [fn |-> "predicted_lux", ts |-> ts, cloud_cover |-> c,
                       ret |-> predicted_lux(ts, c, cfg)] >>
    /\ UNCHANGED <<caller, cfg, pc, start_ts, minutes, cloud_cover_fn, total_points,
                   i, out, prev_obs, calls, prev_ret>>
    /\ UNCHANGED <<svcVars, parVars, histVars>>

\* The unit caller makes one direct call: classify_reading(lux, cfg).
Classify ==
    /\ caller = "unit"
    /\ probe = <<>>
    /\ \E lux \in ProbeLux(cfg) :
          probe' = << [fn |-> "classify_reading", lux |-> lux,
                       ret |-> classify_reading(lux, cfg)] >>
    /\ UNCHANGED <<caller, cfg, pc, start_ts, minutes, cloud_cover_fn, total_points,
                   i, out, prev_obs, calls, prev_ret>>
    /\ UNCHANGED <<svcVars, parVars, histVars>>

\* The unit caller makes one direct call: observed_lux(pred_lux, day_index, cfg).
Observe ==
    /\ caller = "unit"
    /\ probe = <<>>
    /\ \E pred \in ProbePred(cfg), day \in ProbeDays, gauss \in GaussDraws,
          u \in AnomalyDraws :
          \E kind \in (IF u < cfg.anomaly_rate THEN AnomalyKinds ELSE {"none"}) :
             probe' = << [fn |-> "observed_lux", pred_lux |-> pred, day_index |-> day,
                          gauss |-> gauss, u |-> u, kind |-> kind,
                          ret |-> observed_lux(pred, day, cfg, gauss, u, kind)] >>
    /\ UNCHANGED <<caller, cfg, pc, start_ts, minutes, cloud_cover_fn, total_points,
                   i, out, prev_obs, calls, prev_ret>>
    /\ UNCHANGED <<svcVars, parVars, histVars>>

\* The unit caller makes one direct call: evaluate(readings, tol_lux).
Evaluate ==
    /\ caller = "unit"
    /\ probe = <<>>
    /\ \E readings \in SeqsUpTo(EvalReadings, MaxEvalLen) :
          probe' = << [fn |-> "evaluate", readings |-> readings,
                       ret |-> evaluate(readings, EvalTol)] >>
    /\ UNCHANGED <<caller, cfg, pc, start_ts, minutes, cloud_cover_fn, total_points,
                   i, out, prev_obs, calls, prev_ret>>
    /\ UNCHANGED <<svcVars, parVars, histVars>>

Next == Call \/ CallAgain \/ Step \/ Return \/ Predict \/ Classify \/ Observe
        \/ Evaluate

Spec == Init /\ [][Next]_vars

\* ======================================================== the services
\* --------------------------------------------------------------- inputs
MaxRequests == 3

\* minutes of the series of main(), which is 24 * 60 in the source.
MainMinutes == 2

DB_NAME == "light_sensor_db"

EnvValues == {None, Some(""), Some("mongodb+srv://cluster")}

Dates == {"2026-01-01", "2026-01-02"}

\* datetime.now(pytz.timezone('America/Los_Angeles')).strftime('%Y-%m-%d')
Today == "2026-01-02"

\* The room names of the requests: two valid ones and one that is not.
RoomNames == {"living", "kitchen", "attic"}

Optional(S) == {None} \cup {Some(x) : x \in S}

\* request.json of the usage and room endpoints; a key the body lacks is
\* None, and a request without a body lacks every key.
UsageBodies == [date : Optional(Dates), onSeconds : Optional({0, 60})]

RoomBodies ==
    [date : Optional(Dates), onSeconds : Optional({60}), avgLux : Optional({30})]

AdminBodies == [username : Optional({"", " ", "ana"})]

AlertBodies ==
    [room_id : Optional({"living"}), date : Optional({"2026-01-01"}),
     durationSeconds : Optional({2400}), type : {None}]

\* dict.get(key, default)
Get(v, default) == IF v = None THEN default ELSE v[1]

\* x or default, for a string or None
OrElse(v, default) == IF v = None \/ v[1] = "" THEN default ELSE v[1]

\* str.strip() on the strings of the requests
Strip(str) == IF str = " " THEN "" ELSE str

\* bool(os.getenv(name)): None and the empty string are false.
Truthy(v) == v # None /\ v[1] # ""

\* ------------------------------------- twin_sim.py and twin/app.py: env
RequiredEnvMessage(prog) ==
    IF prog = "twin_sim"
    THEN "Missing required environment variable: MONGO_URI (check .env)"
    ELSE "Missing MONGO_URI (check .env)"

\* _get_required_env("MONGO_URI") of the program, on the value of the
\* environment: the value, or the RuntimeError raised.
_get_required_env(prog, val) ==
    IF ~Truthy(val)
    THEN [raised |-> TRUE, error |-> RequiredEnvMessage(prog)]
    ELSE [raised |-> FALSE, val |-> val[1]]

\* ----------------------------------------------------------- responses
Respond(endpoint, status, body) ==
    /\ response' = << [endpoint |-> endpoint, status |-> status, body |-> body] >>
    /\ served' = served + 1

NotAvailable == [success |-> FALSE, message |-> "MongoDB not available"]

\* ------------------------------------------------- twin_sim.py: main()
\* main() up to the call of generate_series (lines 211-214); the loop of
\* generate_series and its return are Step and Return.
main ==
    /\ program = "twin_sim"
    /\ phase = "startup"
    /\ pc = "idle"
    /\ calls = 0
    /\ \E start \in {st \in Starts : st.tz = "utc"} :
          Enter(start, MainMinutes, [kind |-> "none"])
    /\ prev_ret' = prev_ret
    /\ phase' = "main"
    /\ UNCHANGED <<program, MONGO_URI, reachable, error, db, store, threads,
                   response, served>>
    /\ UNCHANGED <<parVars, histVars>>

\* write_to_mongo(docs) and the end of main() (lines 216-218, 184-204).
write_to_mongo ==
    /\ program = "twin_sim"
    /\ phase = "main"
    /\ pc = "idle"
    /\ prev_ret # <<>>
    /\ LET docs == prev_ret[1].docs
           uri == _get_required_env("twin_sim", MONGO_URI)
       IN IF uri.raised
          THEN /\ phase' = "failed"
               /\ error' = Some(uri.error)
               /\ store' = store
          ELSE IF ~reachable
          THEN /\ phase' = "failed"
               /\ error' = Some("ServerSelectionTimeoutError")
               /\ store' = store
          ELSE /\ phase' = "done"
               /\ error' = None
               /\ store' = [store EXCEPT !.readings = store.readings \o docs]
    /\ UNCHANGED <<program, MONGO_URI, reachable, db, threads, response, served>>
    /\ UNCHANGED <<twinVars, parVars, histVars>>

\* ------------------------------------------------------- twin/app.py
\* Import of the module (lines 19-23): load_dotenv() and Flask(__name__);
\* nothing reads MONGO_URI.
twin_app_import ==
    /\ program = "twin_app"
    /\ phase = "startup"
    /\ phase' = "serving"
    /\ UNCHANGED <<program, MONGO_URI, reachable, error, db, store, threads,
                   response, served>>
    /\ UNCHANGED <<twinVars, parVars, histVars>>

\* GET /api/readings (lines 60-99); an exception of the view is answered
\* by Flask with status 500.
api_readings ==
    /\ program = "twin_app"
    /\ phase = "serving"
    /\ served < MaxRequests
    /\ LET uri == _get_required_env("twin_app", MONGO_URI)
       IN IF uri.raised
          THEN /\ error' = Some(uri.error)
               /\ Respond("api_readings", 500, [error |-> "RuntimeError"])
          ELSE IF ~reachable
          THEN /\ error' = Some("ServerSelectionTimeoutError")
               /\ Respond("api_readings", 500,
                          [error |-> "ServerSelectionTimeoutError"])
          ELSE /\ error' = None
               /\ Respond("api_readings", 200, [count |-> Len(store.readings)])
    /\ UNCHANGED <<program, MONGO_URI, reachable, phase, db, store, threads>>
    /\ UNCHANGED <<twinVars, parVars, histVars>>

\* --------------------------------------------------- dashboard/app.py
\* Import of the module (lines 18-83): without MONGO_URI, or when the ping
\* fails, a warning is printed and every collection is None.
dashboard_import ==
    /\ program = "dashboard"
    /\ phase = "startup"
    /\ db' = IF Truthy(MONGO_URI) /\ reachable THEN Some(DB_NAME) ELSE None
    /\ phase' = "serving"
    /\ UNCHANGED <<program, MONGO_URI, reachable, error, store, threads, response,
                   served>>
    /\ UNCHANGED <<twinVars, parVars, histVars>>

\* The globals of the module, as the handlers test them.
usage_collection == IF db = None THEN None ELSE Some(store.daily_usage)

room_collections ==
    IF db = None THEN <<>> ELSE [r \in VALID_ROOMS |-> Some(store.rooms[r])]

admin_collection == IF db = None THEN None ELSE Some(store.admin_access)

alert_collection == IF db = None THEN None ELSE Some(store.alerts)

\* room_name in room_collections and room_collections[room_name] is not None
HasRoomCollection(room_name) ==
    room_name \in DOMAIN room_collections /\ room_collections[room_name] # None

\* collection.find_one({"date": date})
find_one(col, date) ==
    IF \E d \in col : d.date = date
    THEN Some(CHOOSE d \in col : d.date = date)
    ELSE None

\* collection.update_one({"date": date}, {"$set": doc}, upsert=True), for a
\* doc that sets every field but _id.
update_one(col, date, doc) == {d \in col : d.date # date} \cup {doc}

Serving == program = "dashboard" /\ phase = "serving" /\ served < MaxRequests

ServiceFrame ==
    /\ UNCHANGED <<program, MONGO_URI, reachable, phase, error, db, threads>>
    /\ UNCHANGED <<twinVars, parVars, histVars>>

\* POST /api/usage/reset (lines 172-178).
reset_usage ==
    /\ Serving
    /\ IF usage_collection # None
       THEN /\ store' = [store EXCEPT !.daily_usage = {}]
            /\ Respond("reset_usage", 200,
                       [success |-> TRUE, message |-> "All data cleared"])
       ELSE /\ store' = store
            /\ Respond("reset_usage", 200, NotAvailable)
    /\ ServiceFrame

\* POST /api/usage/save (lines 180-202); updatedAt is left out.
save_usage ==
    /\ Serving
    /\ \E data \in UsageBodies :
          IF data.date = None
          THEN /\ store' = store
               /\ Respond("save_usage", 400, [error |-> "Invalid data"])
          ELSE LET usage_data ==
                       [date      |-> data.date[1],
                        onSeconds |-> Get(data.onSeconds, 0),
                        offSeconds |-> 86400 - Get(data.onSeconds, 0)]
               IN IF usage_collection # None
                  THEN /\ store' = [store EXCEPT !.daily_usage =
                                       update_one(@, data.date[1], usage_data)]
                       /\ Respond("save_usage", 200, [success |-> TRUE])
                  ELSE /\ store' = store
                       /\ Respond("save_usage", 200, NotAvailable)
    /\ ServiceFrame

\* The answer of get_usage(date): the stored record, or the default one.
UsageAnswer(date) ==
    LET record == IF usage_collection # None
                  THEN find_one(usage_collection[1], date) ELSE None
    IN IF record # None
       THEN [date |-> record[1].date, onSeconds |-> record[1].onSeconds,
             offSeconds |-> record[1].offSeconds]
       ELSE [date |-> date, onSeconds |-> 0, offSeconds |-> 86400]

\* GET /api/usage/<date> (lines 204-215).
get_usage ==
    /\ Serving
    /\ \E date \in Dates : Respond("get_usage", 200, UsageAnswer(date))
    /\ store' = store
    /\ ServiceFrame

\* POST /api/room/<room_name>/save (lines 258-282); updatedAt is left out.
save_room_usage ==
    /\ Serving
    /\ \E room_name \in RoomNames, data \in RoomBodies :
          IF room_name \notin VALID_ROOMS
          THEN /\ store' = store
               /\ Respond("save_room_usage", 400, [error |-> "Invalid room"])
          ELSE IF data.date = None
          THEN /\ store' = store
               /\ Respond("save_room_usage", 400, [error |-> "Invalid data"])
          ELSE LET room_data ==
                       [date      |-> data.date[1],
                        onSeconds |-> Get(data.onSeconds, 0),
                        avgLux    |-> Get(data.avgLux, 0)]
               IN IF HasRoomCollection(room_name)
                  THEN /\ store' = [store EXCEPT !.rooms[room_name] =
                                       update_one(@, data.date[1], room_data)]
                       /\ Respond("save_room_usage", 200,
                                  [success |-> TRUE, room |-> room_name])
                  ELSE /\ store' = store
                       /\ Respond("save_room_usage", 200, NotAvailable)
    /\ ServiceFrame

\* The usage of one room on one date: the stored record, or the default.
RoomAnswer(room_name, date) ==
    LET record == IF HasRoomCollection(room_name)
                  THEN find_one(room_collections[room_name][1], date) ELSE None
    IN IF record # None
       THEN [onSeconds |-> record[1].onSeconds, avgLux |-> record[1].avgLux]
       ELSE [onSeconds |-> 0, avgLux |-> 0]

\* GET /api/room/<room_name>/<date> (lines 284-299).
get_room_usage ==
    /\ Serving
    /\ \E room_name \in RoomNames, date \in Dates :
          IF room_name \notin VALID_ROOMS
          THEN Respond("get_room_usage", 400, [error |-> "Invalid room"])
          ELSE Respond("get_room_usage", 200,
                       [room |-> room_name, date |-> date,
                        onSeconds |-> RoomAnswer(room_name, date).onSeconds,
                        avgLux |-> RoomAnswer(room_name, date).avgLux])
    /\ store' = store
    /\ ServiceFrame

\* GET /api/rooms/all/<date> (lines 338-354).
get_all_rooms_usage ==
    /\ Serving
    /\ \E date \in Dates :
          Respond("get_all_rooms_usage", 200,
                  [date |-> date,
                   rooms |-> [r \in VALID_ROOMS |-> RoomAnswer(r, date)]])
    /\ store' = store
    /\ ServiceFrame

\* POST /api/rooms/reset (lines 356-362).
reset_all_rooms ==
    /\ Serving
    /\ store' = [store EXCEPT !.rooms =
                    [r \in VALID_ROOMS |->
                        IF HasRoomCollection(r) THEN {} ELSE store.rooms[r]]]
    /\ Respond("reset_all_rooms", 200,
               [success |-> TRUE, message |-> "All room data cleared"])
    /\ ServiceFrame

\* POST /api/admin/access (lines 366-387); of the document the username
\* is kept.
log_admin_access ==
    /\ Serving
    /\ \E data \in AdminBodies :
          IF admin_collection = None
          THEN /\ store' = store
               /\ Respond("log_admin_access", 503, NotAvailable)
          ELSE LET username == OrElse(Some(Strip(OrElse(data.username, ""))),
                                      "unknown")
               IN /\ store' = [store EXCEPT !.admin_access =
                                  Append(@, [username |-> username])]
                  /\ Respond("log_admin_access", 200, [success |-> TRUE])
    /\ ServiceFrame

\* The key by which create_alert looks for an alert.
AlertKey(doc) == [room_id |-> doc.room_id, date |-> doc.date, type |-> doc.type]

\* alert_collection.find_one({"room_id": ..., "date": ..., "type": ...})
ExistingAlert(alerts, key) == \E k \in 1..Len(alerts) : AlertKey(alerts[k]) = key

\* POST /api/alerts, up to the answer of find_one (lines 392-411). The
\* requests are handled by threads: another request may run between the
\* find_one of this one and its insert_one.
create_alert_find ==
    /\ Serving
    /\ \E t \in 1..MaxThreads, data \in AlertBodies :
          /\ threads[t] = None
          /\ IF alert_collection = None
             THEN /\ threads' = threads
                  /\ Respond("create_alert", 503, NotAvailable)
             ELSE LET doc == [room_id |-> Strip(OrElse(data.room_id, "unknown")),
                              date |-> OrElse(data.date, Today),
                              durationSeconds |-> Get(data.durationSeconds, 0),
                              type |-> Get(data.type, "duration_over_40min")]
                  IN IF ExistingAlert(alert_collection[1], AlertKey(doc))
                     THEN /\ threads' = threads
                          /\ Respond("create_alert", 200,
                                     [success |-> TRUE, skipped |-> TRUE])
                     ELSE /\ threads' = [threads EXCEPT ![t] = Some(doc)]
                          /\ served' = served + 1
                          /\ response' = response
    /\ store' = store
    /\ UNCHANGED <<program, MONGO_URI, reachable, phase, error, db>>
    /\ UNCHANGED <<twinVars, parVars, histVars>>

\* POST /api/alerts, from the insert_one on (lines 413-426); alert_id and
\* createdAt are left out.
create_alert_insert ==
    /\ program = "dashboard"
    /\ phase = "serving"
    /\ \E t \in 1..MaxThreads :
          /\ threads[t] # None
          /\ store' = [store EXCEPT !.alerts = Append(@, threads[t][1])]
          /\ threads' = [threads EXCEPT ![t] = None]
          /\ response' = << [endpoint |-> "create_alert", status |-> 200,
                             body |-> [success |-> TRUE]] >>
    /\ UNCHANGED <<program, MONGO_URI, reachable, phase, error, db, served>>
    /\ UNCHANGED <<twinVars, parVars, histVars>>

InitService ==
    /\ program \in {"twin_sim", "twin_app", "dashboard"}
    /\ MONGO_URI \in EnvValues
    /\ reachable \in BOOLEAN
    /\ phase = "startup"
    /\ error = None
    /\ db = None
    /\ store = EmptyStore
    /\ threads = [t \in 1..MaxThreads |-> None]
    /\ response = <<>>
    /\ served = 0
    /\ caller = "main"
    /\ cfg = CfgDefault
    /\ TwinIdle
    /\ ParIdle
    /\ HistIdle

NextService ==
    \/ main
    \/ Step
    \/ Return
    \/ write_to_mongo
    \/ twin_app_import
    \/ api_readings
    \/ dashboard_import
    \/ reset_usage
    \/ save_usage
    \/ get_usage
    \/ save_room_usage
    \/ get_room_usage
    \/ get_all_rooms_usage
    \/ reset_all_rooms
    \/ log_admin_access
    \/ create_alert_find
    \/ create_alert_insert

SpecService == InitService /\ [][NextService]_vars

\* ============================== generate_series, invocations side by side
\* The generator of the random module is one object of the process: every
\* random.gauss, random.random and random.choice of every invocation reads
\* its state and advances it. It is a linear congruential generator of
\* period RngModulus here; random.seed(n) sets its state.
RngModulus == 16

Seeds == {0, 1, 5, 10}

Advance(state) == (5 * state + 3) % RngModulus

\* What a call returns from the generator in the given state.
RandomCloud(state) == IF state % 2 = 0 THEN 0 ELSE CloudDen - 1

RandomGauss(state) == ((state \div 2) % 3) - 1

RandomUniform(state) ==
    CASE state % 3 = 0 -> 0
      [] state % 3 = 1 -> 50
      [] OTHER         -> 99

RandomChoice(state) ==
    << "stuck_low", "stuck_high", "spike", "negative" >>[(state % 4) + 1]

\* One iteration of the loop of generate_series (lines 139-166) with the
\* generator in the given state: the document, the observed value and the
\* state the generator is left in.
Iteration(c, start, fn, idx, prev, state) ==
    LET ts == Timestamp(start, idx, c)
        day_index == DayIndex(ts, start)
        raw == IF fn.kind = "none" THEN RandomCloud(state) ELSE CallCloudFn(fn, ts)
        s1 == IF fn.kind = "none" THEN Advance(state) ELSE state
        gauss == RandomGauss(s1)
        s2 == Advance(s1)
        u == RandomUniform(s2)
        s3 == Advance(s2)
        kind == IF u < c.anomaly_rate THEN RandomChoice(s3) ELSE "none"
        s4 == IF u < c.anomaly_rate THEN Advance(s3) ELSE s3
        cloud_cover == _clamp(raw, 0, CloudDen)
        pred == predicted_lux(ts, cloud_cover, c)
        obs == observed_lux(pred, day_index, c, gauss, u, kind)
    IN [doc |-> MakeDoc(ts, cloud_cover, pred, obs, prev, c), obs |-> obs,
        state |-> s4]

\* The loop of generate_series from iteration idx on, run without
\* interruption.
RECURSIVE Loop(_, _, _, _, _, _, _, _)
Loop(c, start, fn, total, idx, docs, prev, state) ==
    IF idx >= total THEN docs
    ELSE LET it == Iteration(c, start, fn, idx, prev, state)
         IN Loop(c, start, fn, total, idx + 1, Append(docs, it.doc), Some(it.obs),
                 it.state)

\* random.seed(seed); generate_series(start, mins, c, fn), run alone.
generate_series(seed, start, mins, c, fn) ==
    Loop(c, NormalizeStart(start), fn, TotalPoints(mins, c), 0, <<>>, None, seed)

\* The invocations: one per device.
Invocations == {1, 2}

DeviceIds == << "ls-100-0001", "ls-100-0002" >>

ParConfigs == {CfgNoise, CfgAnomaly}

ParMinutes == {720, 1440}

ParCloudFns == {[kind |-> "none"], [kind |-> "const", v |-> 1]}

NotStarted == [pc |-> "idle"]

\* An invocation is called: generate_series up to the loop (lines 131-136).
ParCall ==
    /\ caller = "parallel"
    /\ \E k \in Invocations, c \in ParConfigs, mins \in ParMinutes,
          fn \in ParCloudFns :
          /\ inv[k].pc = "idle"
          /\ inv' = [inv EXCEPT ![k] =
                        [ pc             |-> "loop",
                          cfg            |-> [c EXCEPT !.device_id = DeviceIds[k]],
                          start_ts       |-> NormalizeStart(DateTime(0, 0, 0, "utc")),
                          minutes        |-> mins,
                          cloud_cover_fn |-> fn,
                          total_points   |-> TotalPoints(mins, c),
                          i              |-> 0,
                          out            |-> <<>>,
                          prev_obs       |-> None ]]
    /\ UNCHANGED rng
    /\ UNCHANGED <<twinVars, svcVars, histVars>>

\* One iteration of the loop of one invocation; the other invocation may
\* run its iterations in between.
ParStep ==
    /\ caller = "parallel"
    /\ \E k \in Invocations :
          /\ inv[k].pc = "loop"
          /\ inv[k].i < inv[k].total_points
          /\ LET it == Iteration(inv[k].cfg, inv[k].start_ts, inv[k].cloud_cover_fn,
                                 inv[k].i, inv[k].prev_obs, rng.state)
             IN /\ inv' = [inv EXCEPT ![k].out = Append(@, it.doc),
                                      ![k].prev_obs = Some(it.obs),
                                      ![k].i = @ + 1]
                /\ rng' = [rng EXCEPT !.state = it.state,
                                      !.first = IF @ = 0 THEN k ELSE @]
    /\ UNCHANGED <<twinVars, svcVars, histVars>>

\* return out (line 168).
ParReturn ==
    /\ caller = "parallel"
    /\ \E k \in Invocations :
          /\ inv[k].pc = "loop"
          /\ inv[k].i >= inv[k].total_points
          /\ inv' = [inv EXCEPT ![k].pc = "returned"]
    /\ UNCHANGED rng
    /\ UNCHANGED <<twinVars, svcVars, histVars>>

\* random.seed(seed), then the invocations are started.
InitPar ==
    /\ \E seed \in Seeds : rng = [seed |-> seed, state |-> seed, first |-> 0]
    /\ inv = [k \in Invocations |-> NotStarted]
    /\ caller = "parallel"
    /\ cfg = CfgDefault
    /\ TwinIdle
    /\ HistIdle
    /\ program = "none"
    /\ MONGO_URI = None
    /\ reachable = FALSE
    /\ phase = "startup"
    /\ error = None
    /\ db = None
    /\ store = EmptyStore
    /\ threads = [t \in 1..MaxThreads |-> None]
    /\ response = <<>>
    /\ served = 0

NextPar == ParCall \/ ParStep \/ ParReturn

SpecPar == InitPar /\ [][NextPar]_vars

\* ================================= dashboard/app.py: the sensor histories
\* --------------------------------------------------------------- inputs
MaxPosts == 4

\* A JSON value of a request body: <<"null">> for a key the body lacks,
\* <<"str", s>> for a string, <<"num", n>> for a number (in hundredths).
JsonSensorIds == {<<"null">>, <<"str", "">>, <<"num", 500>>, <<"str", "s1">>, <<"str", "s2">>}

JsonLux == {<<"null">>, <<"str", "abc">>, <<"str", "30">>, <<"num", 1234>>}

JsonTimestamps == {<<"null">>, <<"str", "2026-01-01T08:00:00">>}

SensorBodies == [sensor_id : JsonSensorIds, lux : JsonLux, timestamp : JsonTimestamps]

\* float(lux): the number in hundredths, or the TypeError / ValueError.
ToFloat(v) ==
    CASE v[1] = "num"                  -> [raised |-> FALSE, val |-> v[2]]
      [] v[1] = "str" /\ v[2] = "30"   -> [raised |-> FALSE, val |-> 3000]
      [] OTHER                         -> [raised |-> TRUE]

\* round(lux, 1), in tenths, for a lux in hundredths that is not half way
\* between two tenths.
Round1(h) == IF h >= 0 THEN (h + 5) \div 10 ELSE -((5 - h) \div 10)

\* get_sensor_status(lux)["level"], for a lux in hundredths.
get_sensor_status(lux) ==
    IF lux < 1500 THEN "Dark"
    ELSE IF lux < 2500 THEN "Dim"
    ELSE IF lux < 3500 THEN "Normal"
    ELSE IF lux < 5000 THEN "Bright"
    ELSE "Very Bright"

\* now_iso()
now_iso == "now"

\* POST /api/v1/sensors/data (lines 137-168).
submit_single_sensor_reading ==
    /\ program = "dashboard"
    /\ phase = "serving"
    /\ served < MaxPosts
    /\ \E data \in SensorBodies :
          LET sensor_id == data.sensor_id
              lux == ToFloat(data.lux)
          IN IF sensor_id[1] # "str" \/ sensor_id[2] = ""
             THEN /\ Respond("submit_single_sensor_reading", 400,
                             [success |-> FALSE,
                              error |-> "Missing or invalid 'sensor_id'"])
                  /\ UNCHANGED histVars
             ELSE IF lux.raised
             THEN /\ Respond("submit_single_sensor_reading", 400,
                             [success |-> FALSE, error |-> "Missing or invalid 'lux'"])
                  /\ UNCHANGED histVars
             ELSE LET reading ==
                          [sensor_id |-> sensor_id[2],
                           lux       |-> Round1(lux.val),
                           timestamp |-> IF data.timestamp[1] = "str"
                                         THEN data.timestamp[2] ELSE now_iso,
                           status    |-> get_sensor_status(lux.val)]
                      by_id == setdefault(sensor_history_by_id, sensor_id[2])
                  IN /\ sensor_history_by_id' =
                            [by_id EXCEPT ![sensor_id[2]] =
                                keep_last_n(Append(@, reading), HistoryLimit)]
                     /\ sensor_history' =
                            keep_last_n(Append(sensor_history, reading), HistoryLimit)
                     /\ accepted' = Append(accepted, reading)
                     /\ initial_history' = initial_history
                     /\ Respond("submit_single_sensor_reading", 201,
                                [success |-> TRUE, reading |-> reading])
    /\ UNCHANGED <<program, MONGO_URI, reachable, phase, error, db, store, threads>>
    /\ UNCHANGED <<twinVars, parVars>>

\* The dashboard serves, after an import by a server (the histories are
\* empty) or after a run as a script (sensor_history holds the simulated
\* readings of lines 493-500).
InitSensor ==
    /\ sensor_history \in {<<>>, SimulatedHistory}
    /\ initial_history = sensor_history
    /\ sensor_history_by_id = <<>>
    /\ accepted = <<>>
    /\ program = "dashboard"
    /\ MONGO_URI = None
    /\ reachable = FALSE
    /\ phase = "serving"
    /\ error = None
    /\ db = None
    /\ store = EmptyStore
    /\ threads = [t \in 1..MaxThreads |-> None]
    /\ response = <<>>
    /\ served = 0
    /\ caller = "none"
    /\ cfg = CfgDefault
    /\ TwinIdle
    /\ ParIdle

NextSensor == submit_single_sensor_reading

SpecSensor == InitSensor /\ [][NextSensor]_vars

\* ================================================================ claims
\* Every series the model holds: the one being built and the one returned by
\* the previous call, each with the arguments of its call.
Running ==
    [start |-> start_ts, minutes |-> minutes, cloud_cover_fn |-> cloud_cover_fn,
     docs |-> out]

Finished == pc = "loop" /\ i >= total_points

Returned == {prev_ret[k] : k \in 1..Len(prev_ret)}

AllDocs ==
    {out[k] : k \in 1..Len(out)}
    \cup UNION {{r.docs[k] : k \in 1..Len(r.docs)} : r \in Returned}

Predicted == probe # <<>> /\ probe[1].fn = "predicted_lux"

Classified == probe # <<>> /\ probe[1].fn = "classify_reading"

\* C1: a series returned for minutes >= 0 has exactly
\* floor(minutes * 60 / sampling_seconds) readings.
C1_PointCount ==
    \A r \in Returned :
        r.minutes >= 0 =>
            Len(r.docs) = (r.minutes * 60) \div cfg.sampling_seconds

\* C1 witness: a returned series whose duration the sampling interval does
\* not divide, with at least one reading.
C1_Witness ==
    \E r \in Returned :
        /\ r.minutes > 0
        /\ (r.minutes * 60) % cfg.sampling_seconds # 0
        /\ Len(r.docs) >= 2

\* C2: reading k (from 0) of a series has timestamp
\* start + k * sampling_seconds, an aware one, strictly before
\* start + minutes * 60 seconds.
C2_Timestamps ==
    \A r \in Returned \cup {Running} :
        \A k \in 1..Len(r.docs) :
            /\ r.docs[k].ts.t = r.start.t + (k - 1) * cfg.sampling_seconds
            /\ r.docs[k].ts.tz = "utc"
            /\ r.docs[k].ts.t < r.start.t + r.minutes * 60
            /\ k > 1 => r.docs[k].ts.t - r.docs[k - 1].ts.t = cfg.sampling_seconds

\* C2 witness: a returned series of several readings whose start was given
\* as a naive datetime.
C2_Witness ==
    \E r \in Returned :
        /\ Len(r.docs) >= 3
        /\ r.docs[1].ts.t = DateTime(0, 21, 0, "utc").t

Outside(ts) == _fractional_hour(ts) < cfg.sunrise_hour \/ _fractional_hour(ts) > cfg.sunset_hour

StrictlyInside(ts) ==
    cfg.sunrise_hour < _fractional_hour(ts) /\ _fractional_hour(ts) < cfg.sunset_hour

\* C3: outside the daylight window predicted_lux returns night_lux, whatever
\* the cloud cover, and so is lux_pred of every reading generated there.
C3_NightIsNightLux ==
    /\ Predicted /\ Outside(probe[1].ts) => probe[1].ret = ToLux(cfg.night_lux)
    /\ \A d \in AllDocs : Outside(d.ts) => d.lux_pred = ToLux(cfg.night_lux)

\* C3 witness: a reading generated after sunset under a cloud cover above 0.
C3_Witness ==
    \E d \in AllDocs :
        /\ _fractional_hour(d.ts) > cfg.sunset_hour
        /\ d.cloud_cover > 0
        /\ cfg.peak_lux > cfg.night_lux

\* C4: predicted_lux is never below 0, in a direct call or in a generated
\* reading.
C4_PredictedNonNegative ==
    /\ Predicted => probe[1].ret >= 0
    /\ \A d \in AllDocs : d.lux_pred >= 0

UnitClouds == 0..CloudDen

C6_DayAboveNight ==
    cfg.peak_lux > cfg.night_lux =>
        \A r \in Returned \cup {Running} :
            \A a, b \in 1..Len(r.docs) :
                (StrictlyInside(r.docs[a].ts) /\ Outside(r.docs[b].ts)) =>
                    r.docs[a].lux_pred > r.docs[b].lux_pred

\* C6 witness: a series over a full day under total overcast with a reading
\* by day and a reading by night.
C6_Witness ==
    /\ cfg.peak_lux > cfg.night_lux
    /\ \E r \in Returned :
          /\ r.minutes = HoursPerDay * 60
          /\ \E a, b \in 1..Len(r.docs) :
                /\ StrictlyInside(r.docs[a].ts)
                /\ r.docs[a].cloud_cover = CloudDen
                /\ Outside(r.docs[b].ts)

RECURSIVE SumObs(_)
SumObs(docs) == IF docs = <<>> THEN 0 ELSE Head(docs).lux_obs + SumObs(Tail(docs))

\* A call that has built its whole series, two days after the previous call
\* and over the same clock window, with drift, no noise, no anomaly and a
\* fixed cloud-cover source.
DriftScenario ==
    /\ Finished
    /\ prev_ret # <<>>
    /\ start_ts.t = prev_ret[1].start.t + 2 * SecondsPerDay
    /\ minutes = prev_ret[1].minutes
    /\ cloud_cover_fn = prev_ret[1].cloud_cover_fn
    /\ cloud_cover_fn.kind = "const"
    /\ cfg.drift_per_day > 0
    /\ cfg.noise_sigma = 0
    /\ cfg.anomaly_rate = 0
    /\ Len(out) > 0

\* C7: in the drift scenario the mean observed lux of the later series is
\* above the mean of the earlier one (both have the same number of readings,
\* so the sums compare as the means do).
C7_DriftAcrossCalls ==
    DriftScenario =>
        /\ Len(out) = Len(prev_ret[1].docs)
        /\ SumObs(out) > SumObs(prev_ret[1].docs)

\* C8: the first reading of a series is never stuck.
C8_FirstNeverStuck ==
    \A r \in Returned \cup {Running} :
        Len(r.docs) >= 1 => ~r.docs[1].flags.is_stuck

\* C8 witness: a second call whose first observed value equals the last
\* observed value of the call before it.
C8_Witness ==
    /\ calls >= 2
    /\ Len(out) >= 1
    /\ prev_ret # <<>>
    /\ Len(prev_ret[1].docs) >= 1
    /\ prev_ret[1].docs[Len(prev_ret[1].docs)].lux_obs = out[1].lux_obs

\* C9: is_negative is lux < 0 and is_impossible_high is
\* lux > impossible_high_lux, in every generated reading and in a direct
\* call of classify_reading.
C9_NegativeAndHigh ==
    /\ \A d \in AllDocs :
          /\ d.flags.is_negative <=> d.lux_obs < 0
          /\ d.flags.is_impossible_high <=> d.lux_obs > ToLux(cfg.impossible_high_lux)
    /\ Classified =>
          /\ probe[1].ret.is_negative <=> probe[1].lux < 0
          /\ probe[1].ret.is_impossible_high <=> probe[1].lux > ToLux(cfg.impossible_high_lux)

\* C9 witness: a series with a reading observed at exactly 0 and a reading
\* observed at exactly impossible_high_lux, neither flagged.
C9_Witness ==
    \E a, b \in AllDocs :
        /\ a.lux_obs = 0
        /\ ~a.flags.is_negative
        /\ b.lux_obs = ToLux(cfg.impossible_high_lux)
        /\ ~b.flags.is_impossible_high

\* C10: is_dark_alert is 0 <= lux < alert_lux_threshold, so no reading is
\* both negative and a dark alert.
C10_DarkAlert ==
    /\ \A d \in AllDocs :
          /\ d.flags.is_dark_alert <=>
                (0 <= d.lux_obs /\ d.lux_obs < ToLux(cfg.alert_lux_threshold))
          /\ ~(d.flags.is_negative /\ d.flags.is_dark_alert)
    /\ Classified =>
          /\ probe[1].ret.is_dark_alert <=>
                (0 <= probe[1].lux /\ probe[1].lux < ToLux(cfg.alert_lux_threshold))
          /\ ~(probe[1].ret.is_negative /\ probe[1].ret.is_dark_alert)

\* C10 witness: a generated reading observed below 0 under a positive
\* threshold, flagged negative and not dark.
C10_Witness ==
    \E d \in AllDocs :
        /\ d.lux_obs < 0
        /\ cfg.alert_lux_threshold > 0
        /\ d.flags.is_negative
        /\ ~d.flags.is_dark_alert

Observed == probe # <<>> /\ probe[1].fn = "observed_lux"

NoiseValues == {ToLux(cfg.noise_sigma) * g : g \in GaussDraws}

\* C11: when observed_lux injects an anomaly it returns 0, 2 * peak_lux,
\* predicted + 3 * peak_lux or -50 by the kind drawn, whatever the drift and
\* the noise; otherwise, and always when anomaly_rate = 0, it returns
\* predicted + drift + noise.
C11_AnomalyReplaces ==
    /\ Observed =>
          LET p == probe[1]
              plain == p.pred_lux + ToLux(cfg.drift_per_day) * p.day_index
                       + ToLux(cfg.noise_sigma) * p.gauss
          IN /\ p.kind = "stuck_low" => p.ret = 0
             /\ p.kind = "stuck_high" => p.ret = 2 * ToLux(cfg.peak_lux)
             /\ p.kind = "spike" => p.ret = p.pred_lux + 3 * ToLux(cfg.peak_lux)
             /\ p.kind = "negative" => p.ret = ToLux(-50)
             /\ p.kind = "none" => p.ret = plain
             /\ p.kind # "none" <=> p.u < cfg.anomaly_rate
             /\ cfg.anomaly_rate = 0 => p.ret = plain
    /\ cfg.anomaly_rate = 0 =>
          \A r \in Returned \cup {Running} :
              \A k \in 1..Len(r.docs) :
                  r.docs[k].lux_obs - r.docs[k].lux_pred
                  - ToLux(cfg.drift_per_day) * (DateOf(r.docs[k].ts) - DateOf(r.start))
                      \in NoiseValues

\* C11 witness: a spike injected over a drift and a noise that are not 0.
C11_Witness ==
    /\ Observed
    /\ probe[1].kind = "spike"
    /\ probe[1].day_index > 0
    /\ probe[1].gauss # 0
    /\ cfg.drift_per_day > 0
    /\ cfg.noise_sigma > 0

Evaluated == probe # <<>> /\ probe[1].fn = "evaluate"

\* C12: evaluate returns ok = false and a reason for the empty sequence, and
\* ok = true with count = the number of readings for any other.
C12_EmptyIsReported ==
    Evaluated =>
        IF Len(probe[1].readings) = 0
        THEN ~probe[1].ret.ok /\ probe[1].ret.reason = "no data"
        ELSE probe[1].ret.ok /\ probe[1].ret.count = Len(probe[1].readings)

\* C12 witness: evaluate was called on the empty sequence.
C12_Witness == Evaluated /\ probe[1].readings = <<>> /\ ~probe[1].ret.ok

\* The index of the first reading whose lux_pred is the maximum.
FirstMax(readings) ==
    CHOOSE k \in 1..Len(readings) :
        /\ \A j \in 1..Len(readings) : readings[j].lux_pred <= readings[k].lux_pred
        /\ \A j \in 1..(k - 1) : readings[j].lux_pred < readings[k].lux_pred

\* C13: peak_hour_pred is the clock hour of the first reading whose
\* lux_pred is the maximum, and peak_hour_ok is that hour being in 10..14.
C13_PeakHourFirstMax ==
    (Evaluated /\ probe[1].readings # <<>>) =>
        LET first == probe[1].readings[FirstMax(probe[1].readings)]
        IN /\ probe[1].ret.peak_hour_pred = HourField(first.ts)
           /\ probe[1].ret.peak_pred_lux = first.lux_pred
           /\ probe[1].ret.peak_hour_ok <=> HourField(first.ts) \in 10..14

\* C13 witness: the maximum is reached first at hour 14 and again at hour 15.
C13_Witness ==
    /\ Evaluated
    /\ Len(probe[1].readings) = 3
    /\ HourField(probe[1].readings[2].ts) = 14
    /\ HourField(probe[1].readings[3].ts) = 15
    /\ probe[1].readings[1].lux_pred < probe[1].readings[2].lux_pred
    /\ probe[1].readings[2].lux_pred = probe[1].readings[3].lux_pred
    /\ probe[1].ret.peak_hour_ok

NoNoiseNoAnomaly == cfg.noise_sigma = 0 /\ cfg.anomaly_rate = 0

DriftOf(d) == d.lux_obs - d.lux_pred

\* C18: without noise and anomaly, the drift of a reading is drift_per_day
\* times the number of dates between it and the start: 0 on the start date,
\* one drift_per_day more for each midnight crossed between two readings.
C18_DriftByCalendarDate ==
    NoNoiseNoAnomaly =>
        \A r \in Returned \cup {Running} :
            \A k \in 1..Len(r.docs) :
                /\ r.docs[k].ts.t \div SecondsPerDay = r.start.t \div SecondsPerDay
                      => DriftOf(r.docs[k]) = 0
                /\ k > 1 =>
                      DriftOf(r.docs[k]) - DriftOf(r.docs[k - 1]) =
                          ToLux(cfg.drift_per_day)
                          * (r.docs[k].ts.t \div SecondsPerDay
                             - r.docs[k - 1].ts.t \div SecondsPerDay)

\* C18 witness: a reading after midnight, less than a day after the start,
\* carrying one day of drift.
C18_Witness ==
    /\ NoNoiseNoAnomaly
    /\ cfg.drift_per_day > 0
    /\ \E k \in 2..Len(out) :
          /\ out[k].ts.t - start_ts.t < SecondsPerDay
          /\ DriftOf(out[k]) = ToLux(cfg.drift_per_day)
          /\ DriftOf(out[k - 1]) = 0

\* C19: the stored cloud_cover is in [0, 1]; with a source it is the source's
\* value at the reading's timestamp, limited to [0, 1]; and lux_pred is
\* predicted_lux for the stored value.
C19_CloudCoverClamped ==
    \A r \in Returned \cup {Running} :
        \A k \in 1..Len(r.docs) :
            LET d == r.docs[k]
                raw == CallCloudFn(r.cloud_cover_fn, d.ts)
            IN /\ 0 <= d.cloud_cover /\ d.cloud_cover <= CloudDen
               /\ r.cloud_cover_fn.kind # "none" =>
                     d.cloud_cover = (IF raw < 0 THEN 0 ELSE IF raw > CloudDen THEN CloudDen ELSE raw)
               /\ d.lux_pred = predicted_lux(d.ts, d.cloud_cover, cfg)

\* C19 witness: a series under a source that returns more than 1, by day.
C19_Witness ==
    /\ cloud_cover_fn.kind = "const"
    /\ cloud_cover_fn.v > CloudDen
    /\ \E k \in 1..Len(out) : out[k].cloud_cover = CloudDen /\ StrictlyInside(out[k].ts)

\* C14: when MONGO_URI is missing or empty the program has failed at
\* startup with an error that names the setting: no series was generated
\* and no request was received.
C14_FailsAtStartup ==
    program # "none" /\ ~Truthy(MONGO_URI) =>
        /\ phase \in {"startup", "failed"}
        /\ phase = "failed" => error = Some(RequiredEnvMessage(program))
        /\ calls = 0
        /\ served = 0

\* The endpoints of the dashboard that read or write the store.
StoreEndpoints ==
    {"reset_usage", "save_usage", "get_usage", "save_room_usage", "get_room_usage",
     "get_all_rooms_usage", "reset_all_rooms", "log_admin_access", "create_alert"}

\* A response that tells its caller of a failure: an error status, or a
\* body whose success is false.
ExplicitFailure(r) ==
    \/ r.status >= 400
    \/ "success" \in DOMAIN r.body /\ r.body.success = FALSE

\* C15: while the store is unavailable, the response of every endpoint
\* that reads or writes the store is an explicit failure.
C15_UnavailableIsFailure ==
    program = "dashboard" /\ phase = "serving" /\ db = None /\ response # <<>>
        /\ response[1].endpoint \in StoreEndpoints
    => ExplicitFailure(response[1])

\* C20: the alerts collection holds at most one alert per
\* (room_id, date, type), whatever the interleaving of the requests.
C20_OneAlertPerKey ==
    \A j, k \in 1..Len(store.alerts) :
        j # k => AlertKey(store.alerts[j]) # AlertKey(store.alerts[k])

\* C16: an invocation of generate_series that is interleaved with another,
\* and drew first from the seeded generator, returns the series it returns
\* when run alone after the same random.seed.
C16_InterleavedAsAlone ==
    \A k \in DOMAIN inv :
        inv[k].pc = "returned" /\ rng.first = k =>
            inv[k].out = generate_series(rng.seed, inv[k].start_ts, inv[k].minutes,
                                         inv[k].cfg, inv[k].cloud_cover_fn)

\* The last n elements of a sequence, in their order.
LastOf(seq, n) ==
    [k \in 1..Min(n, Len(seq)) |-> seq[Len(seq) - Min(n, Len(seq)) + k]]

\* The accepted readings of one sensor, in arrival order.
AcceptedOf(sensor_id) == SelectSeq(accepted, LAMBDA r : r.sensor_id = sensor_id)

AcceptedSensors == {accepted[k].sensor_id : k \in 1..Len(accepted)}

\* Every per-sensor list holds the latest accepted readings of its sensor.
PerSensorLatest ==
    /\ DOMAIN sensor_history_by_id = AcceptedSensors
    /\ \A sid \in DOMAIN sensor_history_by_id :
          /\ Len(sensor_history_by_id[sid]) <= HistoryLimit
          /\ sensor_history_by_id[sid] = LastOf(AcceptedOf(sid), HistoryLimit)

\* C21 as stated: after POST requests the global history and every
\* per-sensor list hold at most HistoryLimit readings, the most recently
\* accepted ones in arrival order.
C21_Original ==
    program = "dashboard" /\ accepted # <<>> =>
        /\ Len(sensor_history) <= HistoryLimit
        /\ sensor_history = LastOf(accepted, HistoryLimit)
        /\ PerSensorLatest

\* C21, amended: every per-sensor list holds at most HistoryLimit readings,
\* the most recently accepted ones of its sensor in arrival order; the
\* global history holds at most HistoryLimit entries, the last ones of what
\* it held when the dashboard began to serve followed by the accepted
\* readings in arrival order; a request answered with status 400 leaves
\* both histories unchanged.
C21_HistoriesHoldLatest ==
    /\ [](program = "dashboard" =>
            /\ Len(sensor_history) <= HistoryLimit
            /\ sensor_history = LastOf(initial_history \o accepted, HistoryLimit)
            /\ PerSensorLatest)
    /\ [][program = "dashboard" /\ response' # <<>> /\ response'[1].status = 400
            => UNCHANGED <<sensor_history, sensor_history_by_id>>]_vars

\* C21 witness: a dashboard that started with simulated readings has
\* dropped the oldest reading of a sensor and has just rejected a request.
C21_Witness ==
    /\ program = "dashboard"
    /\ initial_history # <<>>
    /\ \E sid \in AcceptedSensors : Len(AcceptedOf(sid)) > HistoryLimit
    /\ response # <<>>
    /\ response[1].endpoint = "submit_single_sensor_reading"
    /\ response[1].status = 400

====
